---- MODULE Spec2Model ----
(***************************************************************************)
(* A model of electron-channel-doctor's Safe Mutator                       *)
(* (lib/safe-code-surgeon.js): the per-file transaction safeModifyFile,    *)
(* the two removal operations, the pre-flight backup, the run loop         *)
(* performSafeSurgery and the safety report.                               *)
(*                                                                         *)
(* A source file is a record [exists, nodes, eof]: the sequence of its     *)
(* top-level nodes, each with a kind, the names it binds and the number of *)
(* lines it spans, and whether the text ends with a newline.  Two files    *)
(* are byte-identical exactly when the records are equal.                  *)
(*                                                                         *)
(* Further specifications share the module: SpecAnalyze, the code          *)
(* detector's analyzeProject (lib/unused-code-detector.js); SpecDetectors, *)
(* analyzeProject with the concurrent reads of detectUnusedImports;        *)
(* SpecDoctor, ChannelDoctor's analyze and fix (lib/index.js); and         *)
(* SpecSurgery, performCodeSurgery with the safe and the legacy surgeon.   *)
(***************************************************************************)
EXTENDS Integers, Sequences, FiniteSets, TLC

\* ------------------------------------------------------------------ bounds
\* Surgeons run one after the other on the same project.
MaxRuns == 2
\* Environment faults (I/O errors, generator exceptions) injected per run.
MaxFaults == 1
\* The maxChangesPerFile the caller passes (--max-changes).
UserMaxChanges == 1
\* Largest failure counter of the safety-score specification.
MaxCount == 3
\* Largest syntaxErrors counter of the safety-score specification.
MaxSyntaxErrors == 15
\* Occurrences of function names in the text of a.js.
MaxOccurrences == 2
\* Functions with a block body in a.js.
MaxBodies == 2
\* IPC calls in a.js.
MaxCalls == 2
\* Entries of the preload file's whitelist.
MaxWhitelist == 2
\* electronAPI.invoke calls in a.js.
MaxInvokes == 2
\* Calls of fix() on one project.
MaxFixes == 2

\* --------------------------------------------------------------- constants
ConservativeNum == 3
ConservativeDen == 10
ScoreStart == 100
SyntaxErrorPenalty == 10
ModificationFailedPenalty == 5
ValidationFailedPenalty == 5
ErrorPenalty == 2
ValidateSyntaxBonus == 10
ConservativeBonus == 10
DryRunBonus == 20

\* ------------------------------------------------------------- source text
Files == {"a.js", "b.js"}

FunctionKinds == {"FunctionDeclaration", "VariableFunction", "ClassMethod"}
\* Syntax that is legal only in an ES module.
ModuleKinds == {"ImportDeclaration", "ExportDeclaration"}

Node(k, ns, l) == [kind |-> k, names |-> ns, lines |-> l]

File(ns, nl) == [exists |-> TRUE, nodes |-> ns, eof |-> nl]

\* A path that readFileSync cannot read (ENOENT).
Missing == [exists |-> FALSE, nodes |-> <<>>, eof |-> FALSE]

RECURSIVE SumLines(_)
SumLines(nodes) ==
    IF nodes = <<>> THEN 0 ELSE Head(nodes).lines + SumLines(Tail(nodes))

\* text.split('\n').length
SplitLines(text) ==
    IF SumLines(text.nodes) = 0 THEN 1
    ELSE SumLines(text.nodes) + (IF text.eof THEN 1 ELSE 0)

\* ------------------------------------------------------------- parse, print
\* parseCode: the tree of a text, or null when Babel rejects the text.
parseCode(code) ==
    IF \E i \in 1..Len(code.nodes) : code.nodes[i].kind = "SyntaxError"
    THEN [ok |-> FALSE, ast |-> <<>>]
    ELSE [ok |-> TRUE, ast |-> code.nodes]

\* A removed node leaves its lines behind: with retainLines the generator
\* prints every remaining node on the line it had in the source.
Blank(n) == Node("Blank", {}, n.lines)

RECURSIVE StripTrailingBlank(_)
StripTrailingBlank(nodes) ==
    IF nodes = <<>> THEN <<>>
    ELSE IF nodes[Len(nodes)].kind = "Blank"
         THEN StripTrailingBlank(SubSeq(nodes, 1, Len(nodes) - 1))
         ELSE nodes

\* generateCode: the printed text (no newline at the end of the output, no
\* lines after the last remaining node), or null when the generator throws.
\* A tree with no node left prints as the empty string.
generateCode(ast, generatorThrows) ==
    IF generatorThrows THEN [ok |-> FALSE, code |-> File(<<>>, FALSE)]
    ELSE [ok |-> TRUE, code |-> File(StripTrailingBlank(ast), FALSE)]

\* !newContent: null and the empty string are both falsy.
Falsy(gen) == ~gen.ok \/ gen.code.nodes = <<>>

\* ------------------------------------------------------- syntax validation
\* new Function(code) compiles the text as a function body, where import
\* and export declarations are syntax errors.
NewFunctionOk(code) ==
    \A i \in 1..Len(code.nodes) : code.nodes[i].kind \notin ModuleKinds

Error(file, message, type) == [file |-> file, error |-> message, type |-> type]

\* validateSyntax: [ok, errors pushed, whether the temp file was written].
validateSyntax(code, filePath, opts, nodeAcceptsModules, tempWriteFails) ==
    IF ~opts.validateSyntax
    THEN [ok |-> TRUE, errors |-> <<>>, temp |-> FALSE]
    ELSE IF NewFunctionOk(code)
    THEN [ok |-> TRUE, errors |-> <<>>, temp |-> FALSE]
    ELSE IF tempWriteFails
    THEN [ok |-> FALSE, errors |-> <<>>, temp |-> FALSE]
    ELSE IF nodeAcceptsModules
    THEN [ok |-> TRUE, errors |-> <<>>, temp |-> TRUE]
    ELSE [ok |-> FALSE,
          errors |-> <<Error(filePath, "Syntax validation failed", "syntax_error")>>,
          temp |-> TRUE]

\* ------------------------------------------------ the removal visitors
\* traverse(ast, visitor) is called without a state argument, and Babel
\* calls each visitor method with this = state: inside the visitor methods
\* this is undefined, not the surgeon.
VisitorThis == "undefined"

\* changeCount < this.options.maxChangesPerFile, as evaluated in a visitor.
WithinBudget(changeCount, opts) ==
    IF VisitorThis = "undefined" THEN "TypeError"
    ELSE IF changeCount < opts.maxChangesPerFile THEN "yes" ELSE "no"

NoChange(ast) ==
    [ast |-> ast, modified |-> FALSE, changeCount |-> 0, threw |-> FALSE]

\* The FunctionDeclaration, VariableDeclarator and ClassMethod visitors of
\* removeUnusedFunctions, applied to the nodes from index i on.
RECURSIVE FunctionsVisitor(_, _, _, _)
FunctionsVisitor(i, st, functionNames, opts) ==
    IF i > Len(st.ast) \/ st.threw THEN st
    ELSE LET n == st.ast[i]
             named == n.kind \in FunctionKinds /\ n.names \cap functionNames # {}
             budget == WithinBudget(st.changeCount, opts)
         IN  IF ~named THEN FunctionsVisitor(i + 1, st, functionNames, opts)
             ELSE IF budget = "TypeError" THEN [st EXCEPT !.threw = TRUE]
             ELSE IF budget = "no"
             THEN FunctionsVisitor(i + 1, st, functionNames, opts)
             ELSE FunctionsVisitor(i + 1,
                      [st EXCEPT !.ast[i] = Blank(n), !.modified = TRUE,
                                 !.changeCount = @ + 1],
                      functionNames, opts)

\* The ImportDeclaration and CallExpression (require) visitors of
\* removeUnusedImports.  changeCount counts the bindings taken out, and a
\* declaration removed for having no specifier left.
RECURSIVE ImportsVisitor(_, _, _)
ImportsVisitor(i, st, importNames) ==
    IF i > Len(st.ast) THEN st
    ELSE LET n == st.ast[i]
             hit == n.names \cap importNames
             remaining == n.names \ importNames
         IN  IF n.kind = "ImportDeclaration"
             THEN ImportsVisitor(i + 1,
                      [ast |-> [st.ast EXCEPT ![i] =
                                   IF remaining = {} THEN Blank(n)
                                   ELSE [n EXCEPT !.names = remaining]],
                       modified |-> st.modified \/ hit # {},
                       changeCount |-> st.changeCount
                                       + (IF n.names = {} THEN 1 ELSE Cardinality(hit)),
                       threw |-> FALSE],
                      importNames)
             ELSE IF n.kind = "RequireDeclaration" /\ hit # {}
             THEN ImportsVisitor(i + 1,
                      [st EXCEPT !.ast[i] = Blank(n), !.modified = TRUE,
                                 !.changeCount = @ + 1],
                      importNames)
             ELSE ImportsVisitor(i + 1, st, importNames)

\* The modificationFn an operation hands to safeModifyFile.
modificationFn(operation, ast, names, opts) ==
    IF operation = "unused-functions"
    THEN FunctionsVisitor(1, NoChange(ast), names, opts)
    ELSE ImportsVisitor(1, NoChange(ast), names)

\* ---------------------------------------------------------- the transaction
NoStatistics ==
    [filesAnalyzed |-> 0, filesModified |-> 0, filesSkipped |-> 0,
     syntaxErrors |-> 0, modificationsAttempted |-> 0,
     modificationsSuccessful |-> 0, modificationsFailed |-> 0,
     validationsFailed |-> 0]

\* The check with the threshold at one half of the file.
TooAggressiveOverHalf(linesBefore, linesAfter) ==
    2 * (linesBefore - linesAfter) > linesBefore

\* lineReduction > linesBefore * 0.3
TooAggressive(linesBefore, linesAfter) ==
    ConservativeDen * (linesBefore - linesAfter) > ConservativeNum * linesBefore

\* The faults the environment can inject into one transaction.
NoFault == "none"
FaultKinds == {"generate", "tempWrite", "write"}

\* The write without the dry-run guard.
WrittenAlways(opts, original, newContent) == newContent

\* if (!this.options.dryRun) fs.writeFileSync(filePath, newContent): what the
\* file holds once the transaction has passed every gate.
WrittenContent(opts, original, newContent) ==
    IF opts.dryRun THEN original ELSE newContent

\* The line-reduction check made ahead of validateSyntax.
TooAggressiveFirst(opts, linesBefore, linesAfter) ==
    opts.conservative /\ TooAggressive(linesBefore, linesAfter)

\* What turns the generated text down between generateCode and
\* validateSyntax: nothing, validateSyntax is the next statement.
RejectedBeforeValidation(opts, linesBefore, linesAfter) == FALSE

\* An exit that counts a transaction without effect as a skipped file.
ExitCounted(outcome, content, stats, errs, mod, gen, temp) ==
    [outcome |-> outcome, content |-> content,
     statistics |-> IF outcome \in {"NoOp", "TooAggressive"}
                    THEN [stats EXCEPT !.filesSkipped = @ + 1] ELSE stats,
     errors |-> errs, removed |-> mod.changeCount, generated |-> gen,
     tempCreated |-> temp]

\* How a transaction ends: the outcome, the file's content afterwards and
\* what was recorded.
Exit(outcome, content, stats, errs, mod, gen, temp) ==
    [outcome |-> outcome, content |-> content, statistics |-> stats,
     errors |-> errs, removed |-> mod.changeCount, generated |-> gen,
     tempCreated |-> temp]

\* safeModifyFile(filePath, modificationFn) on a file whose content is
\* `original`, for one operation and its set of target names.
safeModifyFile(filePath, original, operation, names, opts, stats0, nodeAcceptsModules, fault) ==
    LET stats == [stats0 EXCEPT !.filesAnalyzed = @ + 1]
        caught(message, m, g, t) ==
            Exit("Exception", original,
                 [stats EXCEPT !.modificationsFailed = @ + 1],
                 <<Error(filePath, message, "modification_error")>>, m, g, t)
        parsed == parseCode(original)
        mod == modificationFn(operation, parsed.ast, names, opts)
        gen == generateCode(mod.ast, fault = "generate")
        valid == validateSyntax(gen.code, filePath, opts, nodeAcceptsModules,
                                fault = "tempWrite")
        linesBefore == SplitLines(original)
        linesAfter == SplitLines(gen.code)
    IN  IF ~original.exists THEN caught("ENOENT", NoChange(<<>>), Missing, FALSE)
        ELSE IF ~parsed.ok
        THEN Exit("Skipped", original,
                  [stats EXCEPT !.filesSkipped = @ + 1],
                  <<Error(filePath, "Parse error", "parse_error")>>,
                  NoChange(<<>>), Missing, FALSE)
        ELSE IF mod.threw THEN caught("TypeError", NoChange(<<>>), Missing, FALSE)
        ELSE IF ~mod.modified
        THEN Exit("NoOp", original, stats, <<>>, NoChange(<<>>), Missing, FALSE)
        ELSE IF Falsy(gen)
        THEN Exit("GenerationFailed", original,
                  [stats EXCEPT !.modificationsFailed = @ + 1], <<>>, mod, Missing,
                  FALSE)
        ELSE IF ~RejectedBeforeValidation(opts, linesBefore, linesAfter) /\ ~valid.ok
        THEN Exit("ValidationFailed", original,
                  [stats EXCEPT !.validationsFailed = @ + 1],
                  valid.errors, mod, gen.code, valid.temp)
        ELSE IF opts.conservative /\ TooAggressive(linesBefore, linesAfter)
        THEN Exit("TooAggressive", original, stats, valid.errors, mod, gen.code,
                  valid.temp)
        ELSE IF ~opts.dryRun /\ fault = "write"
        THEN caught("EACCES", mod, gen.code, valid.temp)
        ELSE Exit("Committed",
                  WrittenContent(opts, original, gen.code),
                  [stats EXCEPT !.filesModified = @ + 1,
                                !.modificationsSuccessful = @ + 1],
                  valid.errors, mod, gen.code, valid.temp)

\* ------------------------------------------------------------- the report
Max(a, b) == IF a > b THEN a ELSE b
Min(a, b) == IF a < b THEN a ELSE b

\* The score without Math.max(0, Math.min(100, score)).
UnclampedSafetyScore(stats, errs, opts) ==
    ScoreStart
    - stats.syntaxErrors * SyntaxErrorPenalty
    - stats.modificationsFailed * ModificationFailedPenalty
    - stats.validationsFailed * ValidationFailedPenalty
    - Len(errs) * ErrorPenalty
    + (IF opts.validateSyntax THEN ValidateSyntaxBonus ELSE 0)
    + (IF opts.conservative THEN ConservativeBonus ELSE 0)
    + (IF opts.dryRun THEN DryRunBonus ELSE 0)

calculateSafetyScore(stats, errs, opts) ==
    LET score == ScoreStart
                 - stats.syntaxErrors * SyntaxErrorPenalty
                 - stats.modificationsFailed * ModificationFailedPenalty
                 - stats.validationsFailed * ValidationFailedPenalty
                 - Len(errs) * ErrorPenalty
                 + (IF opts.validateSyntax THEN ValidateSyntaxBonus ELSE 0)
                 + (IF opts.conservative THEN ConservativeBonus ELSE 0)
                 + (IF opts.dryRun THEN DryRunBonus ELSE 0)
    IN  Max(0, Min(100, score))

generateSafetyReport(stats, errs, opts) ==
    [success |-> stats.modificationsFailed = 0 /\ Len(errs) = 0,
     mode |-> IF opts.dryRun THEN "DRY_RUN" ELSE "LIVE",
     statistics |-> stats,
     errors |-> errs,
     safetyScore |-> calculateSafetyScore(stats, errs, opts)]

NoReport ==
    [success |-> FALSE, mode |-> "none", statistics |-> NoStatistics,
     errors |-> <<>>, safetyScore |-> 0]

\* ---------------------------------------------------------------- issues
Issue(file, name) == [file |-> file, name |-> name]

\* groupByFile: one group per file, in the order the files first appear.
RECURSIVE groupByFile(_)
groupByFile(items) ==
    IF items = <<>> THEN <<>>
    ELSE LET f == Head(items).file
             mine == {items[i].name : i \in {j \in 1..Len(items) : items[j].file = f}}
             rest == SelectSeq(Tail(items), LAMBDA it : it.file # f)
         IN  <<[file |-> f, names |-> mine]>> \o groupByFile(rest)

\* analysisReport.details.unusedFunctions / unusedImports for an operation.
Targets(details, operation) ==
    IF operation = "unused-functions" THEN details.unusedFunctions
    ELSE IF operation = "unused-imports" THEN details.unusedImports
    ELSE <<>>

defaultOperations == <<"unused-imports", "unused-functions">>

activeOperations(ops) == IF Len(ops) > 0 THEN ops ELSE defaultOperations

\* ------------------------------------------------------------- the project
\* What a source file of the project can hold when surgery starts.
Script ==
    File(<<Node("RequireDeclaration", {"fs"}, 1),
           Node("RequireDeclaration", {"path"}, 1),
           Node("Statement", {}, 4),
           Node("FunctionDeclaration", {"foo"}, 3)>>, TRUE)

EsModule ==
    File(<<Node("ImportDeclaration", {}, 1),
           Node("ImportDeclaration", {"useState", "useEffect"}, 1),
           Node("ImportDeclaration", {"moment"}, 1),
           Node("Statement", {}, 5),
           Node("ExportDeclaration", {}, 1)>>, TRUE)

LateRequire ==
    File(<<Node("Statement", {}, 2),
           Node("RequireDeclaration", {"fs"}, 1)>>, TRUE)

OnlyRequire == File(<<Node("RequireDeclaration", {"fs"}, 1)>>, TRUE)

TwoImports ==
    File(<<Node("ImportDeclaration", {"useState"}, 1),
           Node("ImportDeclaration", {"moment"}, 1)>>, TRUE)

Clean == File(<<Node("Statement", {}, 3)>>, FALSE)

Broken ==
    File(<<Node("ImportDeclaration", {"moment"}, 1),
           Node("SyntaxError", {}, 1)>>, TRUE)

Contents ==
    {Script, EsModule, LateRequire, OnlyRequire, TwoImports, Clean, Broken, Missing}

UnusedFunctionNames == {"foo"}
UnusedImportNames == {"fs", "path", "useEffect", "moment"}

RECURSIVE IssuesFor(_, _)
IssuesFor(file, names) ==
    IF names = {} THEN <<>>
    ELSE LET n == CHOOSE x \in names : TRUE
         IN  <<Issue(file, n)>> \o IssuesFor(file, names \ {n})

\* analysisReport.details: the analysis reported on every file.
Details ==
    [unusedFunctions |->
        IssuesFor("a.js", UnusedFunctionNames) \o IssuesFor("b.js", UnusedFunctionNames),
     unusedImports |->
        IssuesFor("a.js", UnusedImportNames) \o IssuesFor("b.js", UnusedImportNames)]

OperationLists ==
    {<<>>, <<"unused-functions">>, <<"unused-imports", "unused-imports">>,
     <<"unused-css-classes">>}

MaxChangesChoices == {UserMaxChanges}

Options ==
    [validateSyntax : BOOLEAN, conservative : BOOLEAN, dryRun : BOOLEAN,
     maxChangesPerFile : MaxChangesChoices]

\* ------------------------------------------------------------------- state
VARIABLES
    disk,            \* the project's source files: file -> content
    options,         \* this.options of the surgeon
    nodeAcceptsModules, \* whether `node --check` accepts ES-module syntax here
    details,         \* analysisReport.details
    operations,      \* the operations argument of performSafeSurgery
    pc,              \* where performSafeSurgery stands
    opIdx,           \* the operations already begun
    queue,           \* the file groups the current operation has still to do
    statistics,      \* this.statistics
    errors,          \* this.errors
    backup,          \* the backup directory of this run
    report,          \* what performSafeSurgery returned
    log,             \* the transactions of this run, in order
    run,             \* which surgeon this is (1 = the first)
    faults,          \* environment faults injected so far in this run
    runStart,        \* the disk when this run began
    prevLog,         \* the transactions of the run before this one
    sources,         \* the project as the detector and the doctor read it
    analysis         \* where analyzeProject, or the doctor, stands and what
                     \* it has collected

vars == <<disk, options, nodeAcceptsModules, details, operations, pc, opIdx,
          queue, statistics, errors, backup, report, log, run, faults, runStart,
          prevLog, sources, analysis>>

\* The surgeon reads the analysis report it is handed, not the detector.
NoSources == <<>>
NotAnalysing == [pc |-> "none"]

NoBackup == [state |-> "none", pending |-> <<>>, copies |-> [f \in Files |-> Missing]]

\* glob.sync lists the files that exist, in sorted order.
Globbed(d) ==
    (IF d["a.js"].exists THEN <<"a.js">> ELSE <<>>)
    \o (IF d["b.js"].exists THEN <<"b.js">> ELSE <<>>)

\* a.js holds any of the contents, b.js one of two.
Projects ==
    {d \in [Files -> Contents] : d["b.js"] \in {Script, Clean}}

Init ==
    /\ disk \in Projects
    /\ options \in Options
    /\ nodeAcceptsModules \in BOOLEAN
    /\ details = Details
    /\ operations \in OperationLists
    /\ pc = "idle"
    /\ opIdx = 0
    /\ queue = <<>>
    /\ statistics = NoStatistics
    /\ errors = <<>>
    /\ backup = NoBackup
    /\ report = NoReport
    /\ log = <<>>
    /\ run = 1
    /\ faults = 0
    /\ runStart = disk
    /\ prevLog = <<>>
    /\ sources = NoSources
    /\ analysis = NotAnalysing

\* ------------------------------------------------------ performSafeSurgery
Fixed == <<options, nodeAcceptsModules, details, operations, run, runStart,
           prevLog, sources, analysis>>

\* The backup made in every run, dry or live.
BackupAlways(opts) == TRUE

\* The backup made in no run.
BackupNever(opts) == FALSE

\* if (!this.options.dryRun) await this.createBackup();
BackupWanted(opts) == ~opts.dryRun

Start ==
    /\ pc = "idle"
    /\ IF BackupWanted(options)
       THEN /\ pc' = "backup"
            /\ backup' = [state |-> "running", pending |-> Globbed(disk),
                          copies |-> [f \in Files |-> Missing]]
       ELSE /\ pc' = "ops"
            /\ backup' = backup
    /\ UNCHANGED <<disk, opIdx, queue, statistics, errors, report, log, faults>>
    /\ UNCHANGED Fixed

\* createBackup: fs.copyFileSync(srcPath, destPath) for the next file.
BackupCopy ==
    /\ pc = "backup"
    /\ backup.pending # <<>>
    /\ backup' = [backup EXCEPT !.pending = Tail(@),
                                !.copies[Head(backup.pending)] = disk[Head(backup.pending)]]
    /\ UNCHANGED <<disk, pc, opIdx, queue, statistics, errors, report, log, faults>>
    /\ UNCHANGED Fixed

\* Where performSafeSurgery goes once createBackup has returned.
AfterBackup == "ops"

\* createBackup: RESTORE.sh and BACKUP_INFO.json written, backupDir returned.
BackupFinish ==
    /\ pc = "backup"
    /\ backup.pending = <<>>
    /\ backup' = [backup EXCEPT !.state = "complete"]
    /\ pc' = AfterBackup
    /\ UNCHANGED <<disk, opIdx, queue, statistics, errors, report, log, faults>>
    /\ UNCHANGED Fixed

\* The failure of createBackup caught and ignored.
BackupFailureIgnored == "ops"

\* Where performSafeSurgery goes when createBackup throws: the rejection of
\* the awaited promise leaves performSafeSurgery.
AfterBackupFailure == "aborted"

\* createBackup: mkdirSync, copyFileSync or writeFileSync throws.
BackupFail ==
    /\ pc = "backup"
    /\ faults < MaxFaults
    /\ faults' = faults + 1
    /\ backup' = [backup EXCEPT !.state = "failed"]
    /\ pc' = AfterBackupFailure
    /\ UNCHANGED <<disk, opIdx, queue, statistics, errors, report, log>>
    /\ UNCHANGED Fixed

\* The loop over activeOperations: the next operation begins.
BeginOperation ==
    /\ pc = "ops"
    /\ queue = <<>>
    /\ opIdx < Len(activeOperations(operations))
    /\ opIdx' = opIdx + 1
    /\ statistics' = [statistics EXCEPT !.modificationsAttempted = @ + 1]
    /\ queue' = groupByFile(Targets(details, activeOperations(operations)[opIdx + 1]))
    /\ UNCHANGED <<disk, pc, errors, backup, report, log, faults>>
    /\ UNCHANGED Fixed

\* The text a transaction would start from had it been started with the
\* others when the run began.
ContentAtStart(d, start, file) == start[file]

\* fs.readFileSync(filePath, 'utf8') in safeModifyFile: the file as it is on
\* disk when the transaction runs.
originalContent(d, start, file) == d[file]

\* One transaction: await this.safeModifyFile(filePath, ...) for the next
\* file group of the current operation.  safeModifyFile has no await in
\* it: it runs from its readFileSync to its return in one step.
Transaction ==
    /\ pc = "ops"
    /\ queue # <<>>
    /\ \E fault \in {NoFault} \cup FaultKinds :
        LET g == Head(queue)
            op == activeOperations(operations)[opIdx]
            read == originalContent(disk, runStart, g.file)
            tx(f) == safeModifyFile(g.file, read, op, g.names, options,
                                    statistics, nodeAcceptsModules, f)
            r == tx(fault)
        IN  /\ fault # NoFault => faults < MaxFaults /\ r # tx(NoFault)
            /\ faults' = IF fault = NoFault THEN faults ELSE faults + 1
            /\ disk' = [disk EXCEPT ![g.file] = r.content]
            /\ statistics' = r.statistics
            /\ errors' = errors \o r.errors
            /\ log' = Append(log, [file |-> g.file, operation |-> op,
                                   names |-> g.names, fault |-> fault,
                                   outcome |-> r.outcome, before |-> read,
                                   after |-> r.content,
                                   generated |-> r.generated, removed |-> r.removed,
                                   errorsAdded |-> Len(r.errors),
                                   tempCreated |-> r.tempCreated,
                                   statsBefore |-> statistics,
                                   statsAfter |-> r.statistics,
                                   backupState |-> backup.state])
    /\ queue' = Tail(queue)
    /\ UNCHANGED <<pc, opIdx, backup, report>>
    /\ UNCHANGED Fixed

\* return this.generateSafetyReport();
Finish ==
    /\ pc = "ops"
    /\ queue = <<>>
    /\ opIdx = Len(activeOperations(operations))
    /\ report' = generateSafetyReport(statistics, errors, options)
    /\ pc' = "done"
    /\ UNCHANGED <<disk, opIdx, queue, statistics, errors, backup, log, faults>>
    /\ UNCHANGED Fixed

\* The same analysis report is handed to a new surgeon with the same options.
RunAgain ==
    /\ pc = "done"
    /\ run < MaxRuns
    /\ run' = run + 1
    /\ runStart' = disk
    /\ pc' = "idle"
    /\ opIdx' = 0
    /\ queue' = <<>>
    /\ statistics' = NoStatistics
    /\ errors' = <<>>
    /\ backup' = NoBackup
    /\ report' = NoReport
    /\ prevLog' = log
    /\ log' = <<>>
    /\ faults' = 0
    /\ UNCHANGED <<disk, options, nodeAcceptsModules, details, operations,
                   sources, analysis>>

Next ==
    \/ Start
    \/ BackupCopy
    \/ BackupFinish
    \/ BackupFail
    \/ BeginOperation
    \/ Transaction
    \/ Finish
    \/ RunAgain

Spec == Init /\ [][Next]_vars

\* ============================================================== properties
Entries == {log[i] : i \in 1..Len(log)}

Live == ~options.dryRun

\* More than 30% of the file's lines are gone in the generated text.
Over30(e) ==
    10 * (SplitLines(e.before) - SplitLines(e.generated)) > 3 * SplitLines(e.before)

\* The transaction got as far as a generated, non-empty text.
Generated(e) == e.generated.exists

\* What the gates say of a transaction, read off its before and generated text.
PassedEveryGate(e) ==
    /\ e.before.exists
    /\ \A i \in 1..Len(e.before.nodes) : e.before.nodes[i].kind # "SyntaxError"
    /\ e.removed >= 1
    /\ Generated(e) /\ e.generated.nodes # <<>>
    /\ options.validateSyntax =>
          \/ \A i \in 1..Len(e.generated.nodes) :
                e.generated.nodes[i].kind \notin ModuleKinds
          \/ nodeAcceptsModules
    /\ options.conservative => ~Over30(e)

Committed == {i \in 1..Len(log) : log[i].outcome = "Committed"}

\* The outcome the same transaction has in a live run.
LiveOutcome(e) ==
    safeModifyFile(e.file, e.before, e.operation, e.names,
                   [options EXCEPT !.dryRun = FALSE], NoStatistics,
                   nodeAcceptsModules, e.fault).outcome

C5_BackupBeforeFirstTransaction ==
    Live =>
        /\ \A e \in Entries : e.backupState = "complete"
        /\ statistics.filesAnalyzed > 0 => backup.state = "complete"
        /\ backup.state = "running" => log = <<>> /\ disk = runStart
        /\ backup.state = "complete" =>
              \A f \in Files : runStart[f].exists => backup.copies[f] = runStart[f]

C5_Witness ==
    /\ Live /\ backup.state = "complete"
    /\ \E e \in Entries : e.outcome = "Committed" /\ backup.copies[e.file] = e.before

\* C6: when createBackup fails the run is aborted: no transaction has run,
\* no file has changed and no report is returned.
C6_BackupFailureAborts ==
    backup.state = "failed" =>
        /\ pc = "aborted"
        /\ log = <<>> /\ statistics.filesAnalyzed = 0
        /\ disk = runStart
        /\ report = NoReport

C6_Witness ==
    /\ backup.state = "failed" /\ pc = "aborted"
    /\ \E f \in Files : backup.copies[f].exists

Parseable(text) ==
    text.exists /\ \A i \in 1..Len(text.nodes) : text.nodes[i].kind # "SyntaxError"

\* C7, for the operation it is stated of: when a live run is repeated with
\* the same analysis report, the second run's unused-functions transaction
\* on a readable, parseable file ends NoOp, and no file changes.
C7_SecondRunIsNoOp ==
    (run = 2 /\ Live) =>
        /\ \A e \in Entries :
              (e.operation = "unused-functions" /\ Parseable(e.before)
               /\ e.fault = NoFault) => e.outcome = "NoOp"
        /\ faults = 0 /\ (\A i \in 1..Len(prevLog) : prevLog[i].fault = NoFault)
              => disk = runStart

FailureOutcomes ==
    {"Skipped", "GenerationFailed", "TooAggressive", "ValidationFailed", "Exception"}

C9_SuccessUnlessInternalError ==
    pc = "done" =>
        (report.success <=> \A e \in Entries : e.outcome # "Exception")

HasFunction(text, names) ==
    \E i \in 1..Len(text.nodes) :
        /\ text.nodes[i].kind \in FunctionKinds
        /\ text.nodes[i].names \cap names # {}

DefaultOptions(opts) == opts.validateSyntax /\ opts.conservative /\ ~opts.dryRun

\* C13: in a live run with default options, the unused-functions transaction
\* on a parseable file that declares a reported function commits, and the
\* committed file declares no function of a reported name.
C13_UnusedFunctionRemoved ==
    DefaultOptions(options) =>
        \A e \in Entries :
            (/\ e.operation = "unused-functions"
             /\ e.fault = NoFault
             /\ Parseable(e.before)
             /\ HasFunction(e.before, e.names))
            => e.outcome = "Committed" /\ ~HasFunction(e.after, e.names)

\* ------------------------------------------------- the safety score alone
\* calculateSafetyScore over the counters and options, one step at a time.
ScoreInit ==
    /\ disk = [f \in Files |-> Clean]
    /\ options \in Options
    /\ nodeAcceptsModules = FALSE
    /\ details = Details
    /\ operations = <<>>
    /\ pc = "score"
    /\ opIdx = 0
    /\ queue = <<>>
    /\ statistics = NoStatistics
    /\ errors = <<>>
    /\ backup = NoBackup
    /\ report = generateSafetyReport(NoStatistics, <<>>, options)
    /\ log = <<>>
    /\ run = 1
    /\ faults = 0
    /\ runStart = disk
    /\ prevLog = <<>>
    /\ sources = NoSources
    /\ analysis = NotAnalysing

ScoreFrame ==
    UNCHANGED <<disk, nodeAcceptsModules, details, operations, pc, opIdx, queue,
                backup, log, run, faults, runStart, prevLog, sources, analysis>>

CountSyntaxError ==
    /\ pc = "score"
    /\ statistics.syntaxErrors < MaxSyntaxErrors
    /\ statistics' = [statistics EXCEPT !.syntaxErrors = @ + 1]
    /\ report' = generateSafetyReport(statistics', errors, options)
    /\ UNCHANGED <<errors, options>>
    /\ ScoreFrame

CountModificationFailed ==
    /\ pc = "score"
    /\ statistics.modificationsFailed < MaxCount
    /\ statistics' = [statistics EXCEPT !.modificationsFailed = @ + 1]
    /\ report' = generateSafetyReport(statistics', errors, options)
    /\ UNCHANGED <<errors, options>>
    /\ ScoreFrame

CountValidationFailed ==
    /\ pc = "score"
    /\ statistics.validationsFailed < MaxCount
    /\ statistics' = [statistics EXCEPT !.validationsFailed = @ + 1]
    /\ report' = generateSafetyReport(statistics', errors, options)
    /\ UNCHANGED <<errors, options>>
    /\ ScoreFrame

PushError ==
    /\ pc = "score"
    /\ Len(errors) < MaxCount
    /\ errors' = Append(errors, Error("a.js", "Parse error", "parse_error"))
    /\ report' = generateSafetyReport(statistics, errors', options)
    /\ UNCHANGED <<statistics, options>>
    /\ ScoreFrame

ScoreNext ==
    \/ CountSyntaxError
    \/ CountModificationFailed
    \/ CountValidationFailed
    \/ PushError

SpecScore == ScoreInit /\ [][ScoreNext]_vars

Bump(stats, field) == [stats EXCEPT ![field] = @ + 1]

FailureCounters == {"syntaxErrors", "modificationsFailed", "validationsFailed"}

Features == {"validateSyntax", "conservative", "dryRun"}

\* C10: the reported score lies in 0..100, is 100 with no failure and no
\* feature, is not raised by one more failure of any kind and is not lowered
\* by switching a safety feature on.
C10_ScoreBounded ==
    /\ report.safetyScore \in 0..100
    /\ report.safetyScore = calculateSafetyScore(statistics, errors, options)
    /\ (statistics = NoStatistics /\ errors = <<>>
        /\ \A f \in Features : ~options[f]) => report.safetyScore = 100
    /\ \A c \in FailureCounters :
          calculateSafetyScore(Bump(statistics, c), errors, options)
             <= report.safetyScore
    /\ calculateSafetyScore(statistics,
                            Append(errors, Error("a.js", "Parse error", "parse_error")),
                            options)
          <= report.safetyScore
    /\ \A f \in Features :
          /\ calculateSafetyScore(statistics, errors, [options EXCEPT ![f] = TRUE])
                >= calculateSafetyScore(statistics, errors, [options EXCEPT ![f] = FALSE])
          /\ calculateSafetyScore(statistics, errors, [options EXCEPT ![f] = TRUE])
                \in 0..100

\* The penalties outweigh start and bonuses, and the score is held at 0.
C10_Witness ==
    /\ pc = "score"
    /\ report.safetyScore = 0
    /\ statistics.syntaxErrors * 10 + statistics.modificationsFailed * 5
       + statistics.validationsFailed * 5 + Len(errors) * 2 > 140
    /\ options.validateSyntax /\ options.conservative /\ options.dryRun

\* ====================================================== the code detector
\* lib/unused-code-detector.js.  What the detector reads of a source file:
\* whether fs.readFile can read it, whether Babel can parse it, the
\* occurrences of function names in its text (one per line, in order), the
\* function bodies and the IPC calls it holds.
SourceFile(readable, valid, tokens, bodies, calls) ==
    [readable |-> readable, valid |-> valid, tokens |-> tokens,
     bodies |-> bodies, calls |-> calls]

\* One occurrence of a name in a text, by the syntax around it:
\*   FunctionDeclaration   function foo(a) {
\*   ArrowBinding          const foo = (a) =>
\*   Method                foo(a) {
\*   ControlStatement      if (a) {
\*   Call                  foo(a);
\*   Reference             list.map(foo);   module.exports = { foo };
\*   Property              { foo: 1 }       foo = 1;
Occ(form, name) == [form |-> form, name |-> name]

\* /function\s+([a-zA-Z_$][a-zA-Z0-9_$]*)\s*\(/g
DeclarationForms == {"FunctionDeclaration"}
\* /(?:const|let|var)\s+(name)\s*=\s*(?:\([^)]*\)|name)\s*=>/g
ArrowForms == {"ArrowBinding"}
\* /([a-zA-Z_$][a-zA-Z0-9_$]*)\s*\([^)]*\)\s*\{/g
MethodForms == {"FunctionDeclaration", "Method", "ControlStatement"}
ControlKeywords == {"if", "for", "while", "switch", "catch"}
\* new RegExp(`\\b${funcName}\\s*\\(`, 'g')
CallForms == {"FunctionDeclaration", "Method", "ControlStatement", "Call"}
\* new RegExp(`\\b${funcName}\\b(?!\\s*[:(=])`, 'g')
RefForms == {"Reference"}

FunctionInfo(name, file, line, type) ==
    [name |-> name, file |-> file, line |-> line, type |-> type]

\* content.matchAll(regex): the matches from occurrence i on, in text order.
RECURSIVE MatchAll(_, _, _, _, _)
MatchAll(content, i, forms, file, type) ==
    IF i > Len(content) THEN <<>>
    ELSE (IF content[i].form \in forms
          THEN <<FunctionInfo(content[i].name, file, i, type)>>
          ELSE <<>>)
         \o MatchAll(content, i + 1, forms, file, type)

NotControl(info) == info.name \notin ControlKeywords

\* The definitions the first pass finds in one file, in the order it sets
\* them: declarations, then arrows, then methods.
DefinitionsIn(file, content) ==
    MatchAll(content, 1, DeclarationForms, file, "function")
    \o MatchAll(content, 1, ArrowForms, file, "arrow")
    \o SelectSeq(MatchAll(content, 1, MethodForms, file, "method"), NotControl)

\* A map that keeps the value a key was first set to.
MapKeepFirst(m, info) ==
    IF \E i \in 1..Len(m) : m[i].name = info.name THEN m ELSE Append(m, info)

\* Map.set: a new key goes to the end, a known key keeps its place and takes
\* the new value.
MapSet(m, info) ==
    IF \E i \in 1..Len(m) : m[i].name = info.name
    THEN [i \in 1..Len(m) |-> IF m[i].name = info.name THEN info ELSE m[i]]
    ELSE Append(m, info)

RECURSIVE SetAll(_, _)
SetAll(m, infos) ==
    IF infos = <<>> THEN m ELSE SetAll(MapSet(m, Head(infos)), Tail(infos))

\* definedFunctions after the first pass over the files from index i on.
RECURSIVE FirstPass(_, _, _, _)
FirstPass(m, jsFiles, src, i) ==
    IF i > Len(jsFiles) THEN m
    ELSE FirstPass(SetAll(m, DefinitionsIn(jsFiles[i], src[jsFiles[i]].tokens)),
                   jsFiles, src, i + 1)

\* callRegex.test(content) || refRegex.test(content)
UsedIn(content, funcName) ==
    \E i \in 1..Len(content) :
        /\ content[i].name = funcName
        /\ content[i].form \in CallForms \cup RefForms

\* The second pass restricted to the file of the definition.
UsageScopeOwnFile(jsFiles, info) == {i \in 1..Len(jsFiles) : jsFiles[i] = info.file}

\* for (const content of fileContents): the files whose text is searched
\* for usages of a defined function.
UsageScope(jsFiles, info) == 1..Len(jsFiles)

\* detectUnusedFunctions(jsFiles): rejected when a file cannot be read,
\* otherwise the infos pushed onto analysisResults.unusedFunctions.
detectUnusedFunctions(jsFiles, src) ==
    IF \E i \in 1..Len(jsFiles) : ~src[jsFiles[i]].readable
    THEN [rejected |-> TRUE, unused |-> <<>>]
    ELSE LET definedFunctions == FirstPass(<<>>, jsFiles, src, 1)
             used(info) ==
                 \E i \in UsageScope(jsFiles, info) :
                     UsedIn(src[jsFiles[i]].tokens, info.name)
             unusedInfo(info) == ~used(info)
         IN  [rejected |-> FALSE,
              unused |-> SelectSeq(definedFunctions, unusedInfo)]

\* ---------------------------------------------------------- duplicate code
\* node.body.loc.end.line - node.body.loc.start.line > 3
MinBodySpan == 3

\* A node of a Babel tree, with the keys normalizeNode looks at.  Babel
\* keeps the offset of the opening parenthesis of a parenthesised
\* expression in node.extra.parenStart.
AstNode(type, name, value, start, extra, comments) ==
    [type |-> type, name |-> name, value |-> value, start |-> start,
     extra |-> extra, leadingComments |-> comments]

NoExtra == [parenthesized |-> FALSE, parenStart |-> 0]
Paren(offset) == [parenthesized |-> TRUE, parenStart |-> offset]
NoComment == <<>>

Shapes == {"plain", "paren", "other"}
Identifiers == {"x", "y"}

\* The block body of a function that starts at line `start`:
\*   plain   { ...; return x + 1; }
\*   paren   { ...; return (x + 1); }
\*   other   { ...; return x + 2; }
\* span is end.line - start.line of the block; a comment takes one line.
FunctionBody(shape, ident, start, span, commented) ==
    [shape |-> shape, start |-> start,
     span |-> span + (IF commented THEN 1 ELSE 0),
     nodes |-> <<AstNode("Identifier", ident, "", start,
                         NoExtra, IF commented THEN <<"comment">> ELSE NoComment),
                 AstNode("BinaryExpression", "", "+", start,
                         IF shape = "paren" THEN Paren(start) ELSE NoExtra,
                         NoComment),
                 AstNode("NumericLiteral", "", IF shape = "other" THEN "2" ELSE "1",
                         start, NoExtra, NoComment)>>]

\* normalizeNode: loc, start, end and the comment keys are left out, every
\* other key is copied, and an Identifier's name becomes null.
normalizeNode(node) ==
    [type |-> node.type,
     name |-> IF node.type = "Identifier" THEN "null" ELSE node.name,
     value |-> node.value,
     extra |-> node.extra]

\* JSON.stringify(this.normalizeNode(node.body))
BlockString(fb) == [i \in 1..Len(fb.nodes) |-> normalizeNode(fb.nodes[i])]

\* hashNode: the SHA-1 digest, equal exactly for equal strings.
hashNode(blockString) == <<"sha1", blockString>>

Location(file, fb) ==
    [file |-> file, startLine |-> fb.start, endLine |-> fb.start + fb.span]

\* The test made on the number of lines the block covers.
FingerprintedOverThreeLines(fb) == fb.span + 1 > MinBodySpan

Fingerprinted(fb) == fb.span > MinBodySpan

\* functionHashes.has(hash) ? locations.push(location) : functionHashes.set
AddLocation(functionHashes, hash, location) ==
    IF \E i \in 1..Len(functionHashes) : functionHashes[i].hash = hash
    THEN [i \in 1..Len(functionHashes) |->
             IF functionHashes[i].hash = hash
             THEN [functionHashes[i] EXCEPT !.locations = Append(@, location)]
             ELSE functionHashes[i]]
    ELSE Append(functionHashes, [hash |-> hash, locations |-> <<location>>])

\* The traversal of one file's tree, from its k-th function on.
RECURSIVE IndexBodies(_, _, _, _)
IndexBodies(functionHashes, file, bodies, k) ==
    IF k > Len(bodies) THEN functionHashes
    ELSE IndexBodies(
             IF Fingerprinted(bodies[k])
             THEN AddLocation(functionHashes, hashNode(BlockString(bodies[k])),
                              Location(file, bodies[k]))
             ELSE functionHashes,
             file, bodies, k + 1)

\* One turn of the loop over jsFiles: a file that cannot be read or parsed
\* is caught and contributes nothing.
IndexFile(functionHashes, file, sf) ==
    IF ~sf.readable \/ ~sf.valid THEN functionHashes
    ELSE IndexBodies(functionHashes, file, sf.bodies, 1)

\* data.locations.length > 1
IsReported(data) == Len(data.locations) > 1

DuplicateGroup(data) ==
    [locations |-> data.locations, duplicateCount |-> Len(data.locations)]

\* The groups pushed onto analysisResults.duplicateCode.
DuplicateGroups(functionHashes) ==
    LET kept == SelectSeq(functionHashes, IsReported)
    IN  [i \in 1..Len(kept) |-> DuplicateGroup(kept[i])]

\* --------------------------------------------------------- IPC handlers
\* A call ipcMain.handle(arg, ...) or ipcRenderer.invoke(arg, ...) at a line:
\* the first argument is a string literal or some other expression.
IpcCall(role, channel, literal) ==
    [role |-> role, channel |-> channel, literal |-> literal]

Channels == {"load", "save"}

\* getAstFromFile: null when the file cannot be read or parsed.
HasAst(sf) == sf.readable /\ sf.valid

HandlerInfo(channel, file, line) == [name |-> channel, file |-> file, line |-> line]

\* The CallExpression visitor over one file: definedHandlers.set for
\* ipcMain.handle, invokedChannels.add for ipcRenderer.invoke.
RECURSIVE VisitCalls(_, _, _, _)
VisitCalls(st, file, calls, i) ==
    IF i > Len(calls) THEN st
    ELSE LET c == calls[i]
         IN  VisitCalls(
                 IF ~c.literal THEN st
                 ELSE IF c.role = "handle"
                 THEN [st EXCEPT !.definedHandlers =
                                   MapSet(@, HandlerInfo(c.channel, file, i))]
                 ELSE [st EXCEPT !.invokedChannels = @ \cup {c.channel}],
                 file, calls, i + 1)

RECURSIVE VisitFiles(_, _, _, _)
VisitFiles(st, jsFiles, src, i) ==
    IF i > Len(jsFiles) THEN st
    ELSE VisitFiles(
             IF HasAst(src[jsFiles[i]])
             THEN VisitCalls(st, jsFiles[i], src[jsFiles[i]].calls, 1)
             ELSE st,
             jsFiles, src, i + 1)

\* Every defined handler is reported, invoked or not.
HandlerUnusedAlways(invokedChannels, info) == TRUE

\* !invokedChannels.has(channelName)
HandlerUnused(invokedChannels, info) == info.name \notin invokedChannels

\* detectUnusedIpcHandlers(jsFiles): the infos pushed onto
\* analysisResults.unusedIpcHandlers.
detectUnusedIpcHandlers(jsFiles, src) ==
    LET st == VisitFiles([definedHandlers |-> <<>>, invokedChannels |-> {}],
                         jsFiles, src, 1)
        unused(info) == HandlerUnused(st.invokedChannels, info)
    IN  SelectSeq(st.definedHandlers, unused)

\* ------------------------------------------------- the analysed projects
SeqsUpTo(S, n) == UNION {[1..k -> S] : k \in 0..n}

FunctionNames == {"foo", "bar"}

Occurrences ==
    {Occ(f, "foo") : f \in {"FunctionDeclaration", "ArrowBinding", "Method",
                            "Call", "Reference", "Property"}}
    \cup {Occ("ArrowBinding", "bar"), Occ("Call", "bar"),
          Occ("ControlStatement", "if")}

OtherTexts ==
    {<<>>, <<Occ("Call", "foo")>>, <<Occ("Reference", "foo")>>,
     <<Occ("ArrowBinding", "foo")>>}

Parsed(tokens, bodies, calls) == SourceFile(TRUE, TRUE, tokens, bodies, calls)

Project(a, b) == [f \in Files |-> IF f = "a.js" THEN a ELSE b]

\* Projects that differ in the function names their texts hold.
FunctionProjects ==
    {Project(Parsed(t, <<>>, <<>>), Parsed(u, <<>>, <<>>)) :
        t \in SeqsUpTo(Occurrences, MaxOccurrences), u \in OtherTexts}

\* Blocks that cover 3, 4 and 5 lines.
Spans == {MinBodySpan - 1, MinBodySpan, MinBodySpan + 1}

\* The k-th function of a file starts at line 10 * k.
BodiesOfA ==
    UNION {{[k \in 1..n |-> FunctionBody(c[k][1], "x", 10 * k, c[k][2], FALSE)] :
               c \in [1..n -> Shapes \X Spans]} : n \in 0..MaxBodies}

BodiesOfB ==
    {<<>>} \cup {<<FunctionBody(sh, id, 10, MinBodySpan + 2, cm)>> :
                    sh \in Shapes, id \in Identifiers, cm \in BOOLEAN}

\* Projects that differ in the function bodies they hold.
DuplicateProjects ==
    {Project(Parsed(<<>>, x, <<>>), Parsed(<<>>, y, <<>>)) :
        x \in BodiesOfA, y \in BodiesOfB}

IpcCalls ==
    {IpcCall(r, c, l) : r \in {"handle", "invoke"}, c \in Channels, l \in BOOLEAN}

OtherCalls ==
    {<<>>, <<IpcCall("handle", "load", TRUE)>>, <<IpcCall("invoke", "load", TRUE)>>,
     <<IpcCall("handle", "save", TRUE)>>, <<IpcCall("invoke", "load", FALSE)>>}

\* Projects that differ in the IPC calls they hold.
IpcProjects ==
    {Project(Parsed(<<>>, <<>>, x), Parsed(<<>>, <<>>, y)) :
        x \in SeqsUpTo(IpcCalls, MaxCalls), y \in OtherCalls}

\* One project in which each file may be unreadable (a directory named like
\* a script, a file without read permission) or not parseable.
DegradedProjects ==
    {Project(
        SourceFile(fl["a.js"][1], fl["a.js"][2],
                   <<Occ("ArrowBinding", "foo"), Occ("ArrowBinding", "bar")>>,
                   <<FunctionBody("plain", "x", 10, MinBodySpan + 2, FALSE)>>,
                   <<IpcCall("handle", "load", TRUE), IpcCall("handle", "save", TRUE)>>),
        SourceFile(fl["b.js"][1], fl["b.js"][2],
                   <<Occ("Call", "foo")>>,
                   <<FunctionBody("plain", "y", 10, MinBodySpan + 2, TRUE)>>,
                   <<IpcCall("invoke", "load", TRUE)>>)) :
        fl \in [Files -> BOOLEAN \X BOOLEAN]}

AnalysedProjects ==
    FunctionProjects \cup DuplicateProjects \cup IpcProjects \cup DegradedProjects

\* glob.sync returns the matching paths; no order is assumed.
ScanOrders == {<<"a.js", "b.js">>, <<"b.js", "a.js">>}

NoResults == [unusedFunctions |-> <<>>, duplicateCode |-> <<>>, unusedIpcHandlers |-> <<>>]

\* ---------------------------------------------------------- analyzeProject
AnalyzeInit ==
    /\ sources \in AnalysedProjects
    /\ analysis = [pc |-> "idle", jsFiles |-> <<>>, functionsDone |-> FALSE,
                   indexed |-> 0, functionHashes |-> <<>>,
                   analysisResults |-> NoResults, totalIssues |-> 0]
    /\ disk = [f \in Files |-> Missing]
    /\ options = [validateSyntax |-> TRUE, conservative |-> TRUE,
                  dryRun |-> FALSE, maxChangesPerFile |-> UserMaxChanges]
    /\ nodeAcceptsModules = FALSE
    /\ details = Details
    /\ operations = <<>>
    /\ pc = "analysis"
    /\ opIdx = 0
    /\ queue = <<>>
    /\ statistics = NoStatistics
    /\ errors = <<>>
    /\ backup = NoBackup
    /\ report = NoReport
    /\ log = <<>>
    /\ run = 1
    /\ faults = 0
    /\ runStart = disk
    /\ prevLog = <<>>

SurgeonIdle ==
    UNCHANGED <<disk, options, nodeAcceptsModules, details, operations, pc, opIdx,
                queue, statistics, errors, backup, report, log, run, faults,
                runStart, prevLog>>

\* analyzeProject up to its first suspension: scanProjectFiles, then the
\* detectors are started; detectUnusedIpcHandlers reads with readFileSync
\* and has run to its end when the call returns.
AnalyzeProject ==
    /\ analysis.pc = "idle"
    /\ \E jsFiles \in ScanOrders :
          analysis' = [analysis EXCEPT
              !.pc = "detecting",
              !.jsFiles = jsFiles,
              !.analysisResults.unusedIpcHandlers =
                  detectUnusedIpcHandlers(jsFiles, sources)]
    /\ UNCHANGED sources
    /\ SurgeonIdle

\* detectUnusedFunctions after its reads have settled.  A rejected read
\* rejects the Promise.all of analyzeProject.
UnusedFunctionsDetected ==
    /\ analysis.pc = "detecting"
    /\ ~analysis.functionsDone
    /\ LET r == detectUnusedFunctions(analysis.jsFiles, sources)
       IN  analysis' =
               IF r.rejected THEN [analysis EXCEPT !.pc = "rejected"]
               ELSE [analysis EXCEPT !.functionsDone = TRUE,
                                     !.analysisResults.unusedFunctions = r.unused]
    /\ UNCHANGED sources
    /\ SurgeonIdle

\* detectDuplicateCode: one turn of its loop over jsFiles; after the last
\* file the groups are pushed.
DuplicateCodeIndexed ==
    /\ analysis.pc = "detecting"
    /\ analysis.indexed < Len(analysis.jsFiles)
    /\ LET file == analysis.jsFiles[analysis.indexed + 1]
           hashes == IndexFile(analysis.functionHashes, file, sources[file])
       IN  analysis' = [analysis EXCEPT
               !.indexed = @ + 1,
               !.functionHashes = hashes,
               !.analysisResults.duplicateCode =
                   IF analysis.indexed + 1 = Len(analysis.jsFiles)
                   THEN DuplicateGroups(hashes) ELSE @]
    /\ UNCHANGED sources
    /\ SurgeonIdle

\* return this.generateReport(), once every detector has settled.
GenerateReport ==
    /\ analysis.pc = "detecting"
    /\ analysis.functionsDone
    /\ analysis.indexed = Len(analysis.jsFiles)
    /\ analysis' = [analysis EXCEPT
           !.pc = "done",
           !.totalIssues = Len(analysis.analysisResults.unusedFunctions)
                           + Len(analysis.analysisResults.duplicateCode)
                           + Len(analysis.analysisResults.unusedIpcHandlers)]
    /\ UNCHANGED sources
    /\ SurgeonIdle

AnalyzeNext ==
    \/ AnalyzeProject
    \/ UnusedFunctionsDetected
    \/ DuplicateCodeIndexed
    \/ GenerateReport

SpecAnalyze == AnalyzeInit /\ [][AnalyzeNext]_vars

\* ------------------------------------------- properties of the detector
\* The occurrences of a name in the whole project, as (file, line) pairs.
OccurrencesOf(name) ==
    {<<f, i>> \in Files \X (1..(MaxOccurrences + 1)) :
        i <= Len(sources[f].tokens) /\ sources[f].tokens[i].name = name}

ReportedFunctions(name) ==
    {i \in 1..Len(analysis.analysisResults.unusedFunctions) :
        analysis.analysisResults.unusedFunctions[i].name = name}

\* C12: a function declared as `function foo(){...}` whose name occurs
\* nowhere else in the project is reported as exactly one unused function.
C12_DeclarationAloneIsUnused ==
    analysis.functionsDone =>
        \A name \in FunctionNames :
            (/\ Cardinality(OccurrencesOf(name)) = 1
             /\ \A o \in OccurrencesOf(name) :
                   sources[o[1]].tokens[o[2]].form = "FunctionDeclaration")
            => Cardinality(ReportedFunctions(name)) = 1

DefinedIn(file, name) ==
    \E i \in 1..Len(sources[file].tokens) :
        /\ sources[file].tokens[i].name = name
        /\ sources[file].tokens[i].form
               \in {"FunctionDeclaration", "ArrowBinding", "Method"}

CalledOrReferencedIn(file, name) ==
    \E i \in 1..Len(sources[file].tokens) :
        /\ sources[file].tokens[i].name = name
        /\ sources[file].tokens[i].form \in {"Call", "Reference"}

DuplicatesDone ==
    /\ analysis.pc \in {"detecting", "done"}
    /\ analysis.indexed = Len(analysis.jsFiles)

\* The function bodies of the project, as (file, index) pairs.
BodiesOfProject ==
    {<<f, k>> \in Files \X (1..(MaxBodies + 1)) :
        HasAst(sources[f]) /\ k <= Len(sources[f].bodies)}

BodyAt(p) == sources[p[1]].bodies[p[2]]

GroupedTogether(p, q) ==
    \E g \in 1..Len(analysis.analysisResults.duplicateCode) :
        LET locs == analysis.analysisResults.duplicateCode[g].locations
        IN  /\ \E i \in 1..Len(locs) : locs[i] = Location(p[1], BodyAt(p))
            /\ \E i \in 1..Len(locs) : locs[i] = Location(q[1], BodyAt(q))

\* C15: two function bodies over the size threshold that differ only in
\* identifier names, source positions or comments are reported in one
\* duplicate group holding both locations, and every reported group has at
\* least 2 locations.
C15_SameStructureOneGroup ==
    DuplicatesDone =>
        /\ \A p, q \in BodiesOfProject :
              (/\ p # q
               /\ BodyAt(p).shape = BodyAt(q).shape
               /\ BodyAt(p).span > MinBodySpan /\ BodyAt(q).span > MinBodySpan)
              => GroupedTogether(p, q)
        /\ \A g \in 1..Len(analysis.analysisResults.duplicateCode) :
              Len(analysis.analysisResults.duplicateCode[g].locations) >= 2

\* The Defined and Invoked facts of the project: calls with a string-literal
\* first argument in the files that have a tree, as (file, line) pairs.
Facts(role) ==
    {<<f, i>> \in Files \X (1..(MaxCalls + 1)) :
        /\ HasAst(sources[f]) /\ i <= Len(sources[f].calls)
        /\ sources[f].calls[i].role = role /\ sources[f].calls[i].literal}

ChannelOf(p) == sources[p[1]].calls[p[2]].channel

DefinedChannels == {ChannelOf(p) : p \in Facts("handle")}
InvokedChannels == {ChannelOf(p) : p \in Facts("invoke")}

UnusedHandlers == analysis.analysisResults.unusedIpcHandlers

\* C16 as stated: with N Defined facts and K channel names shared with the
\* Invoked facts, N - K issues are reported, none for an invoked channel and
\* one for every registration of a channel that is invoked nowhere.
C16_AsClaimed ==
    analysis.pc # "idle" =>
        /\ Len(UnusedHandlers)
              = Cardinality(Facts("handle"))
                - Cardinality(DefinedChannels \cap InvokedChannels)
        /\ \A i \in 1..Len(UnusedHandlers) : UnusedHandlers[i].name \notin InvokedChannels
        /\ \A p \in Facts("handle") :
              ChannelOf(p) \notin InvokedChannels
              => \E i \in 1..Len(UnusedHandlers) :
                    UnusedHandlers[i] = HandlerInfo(ChannelOf(p), p[1], p[2])

\* C16, amended: one issue per channel.  With D distinct Defined channels, K
\* of them invoked, D - K issues are reported: none for an invoked channel,
\* and exactly one, at one of its registrations, for every channel that is
\* registered and invoked nowhere.
C16_UnreferencedChannels ==
    analysis.pc # "idle" =>
        /\ Len(UnusedHandlers)
              = Cardinality(DefinedChannels)
                - Cardinality(DefinedChannels \cap InvokedChannels)
        /\ \A i \in 1..Len(UnusedHandlers) : UnusedHandlers[i].name \notin InvokedChannels
        /\ \A c \in DefinedChannels \ InvokedChannels :
              /\ Cardinality({i \in 1..Len(UnusedHandlers) : UnusedHandlers[i].name = c}) = 1
              /\ \E i \in 1..Len(UnusedHandlers) : \E p \in Facts("handle") :
                    UnusedHandlers[i] = HandlerInfo(c, p[1], p[2])

\* load and save are handled in a.js and load is invoked in b.js: save alone
\* is reported.
C16_Witness ==
    /\ analysis.pc # "idle"
    /\ DefinedChannels = {"load", "save"}
    /\ InvokedChannels = {"load"}
    /\ Len(UnusedHandlers) = 1
    /\ UnusedHandlers[1].name = "save"

\* C17: a file that cannot be read or parsed never makes analyzeProject
\* fail: the run reaches its report.
C17_AnalysisNeverFails ==
    analysis.pc # "rejected"

\* ===================================================== the channel doctor
\* lib/index.js, class ChannelDoctor.  Channel names in the order of
\* Array.prototype.sort (by UTF-16 code unit).
ChannelOrder ==
    <<"convert-to-app-url", "get-platform", "get-user-data-path", "load", "user's">>

\* const infrastructureChannels = [...]
infrastructureChannels == {"get-platform", "get-user-data-path", "convert-to-app-url"}

\* The channel names of the analysed projects.
DoctorChannels == {"get-platform", "load", "user's"}

\* A name that holds the quote character the fixed array is written with.
HasQuote(channel) == channel = "user's"

Count(seq, c) == Cardinality({i \in 1..Len(seq) : seq[i] = c})

RECURSIVE Repeat(_, _)
Repeat(c, n) == IF n = 0 THEN <<>> ELSE <<c>> \o Repeat(c, n - 1)

\* array.sort(): the same elements, duplicates included, in order.
RECURSIVE SortFrom(_, _)
SortFrom(seq, k) ==
    IF k > Len(ChannelOrder) THEN <<>>
    ELSE Repeat(ChannelOrder[k], Count(seq, ChannelOrder[k])) \o SortFrom(seq, k + 1)

sort(seq) == SortFrom(seq, 1)

\* Array.from(set).sort()
InSet(S, c) == c \in S
SortedSet(S) == LET member(c) == InSet(S, c) IN SelectSeq(ChannelOrder, member)

Elements(seq) == {seq[i] : i \in 1..Len(seq)}

\* The preload file: how a read of it ends ("ok", "ENOENT", "EACCES"),
\* whether its text declares `validInvokeChannels = [ ... ]` as an array
\* literal, the strings written between the brackets, and whether one of
\* them is cut short by a quote inside it (the text then does not parse).
Preload(state, declared, elements) ==
    [state |-> state, declared |-> declared, elements |-> elements,
     broken |-> FALSE]

\* A source file of the jsSource pattern: invoke(arg) calls on electronAPI.
SourceScript(readable, invokes) == [readable |-> readable, invokes |-> invokes]

Invoke(channel, literal) == [channel |-> channel, literal |-> literal]

\* ASTParser.getPreloadChannels: the string elements of the declared array,
\* sorted; none when the text does not parse or declares no such array.
getPreloadChannels(content) ==
    IF content.broken \/ ~content.declared THEN <<>>
    ELSE sort(content.elements)

\* getCurrentWhitelist: the channels, or the error it throws.
getCurrentWhitelist(preload) ==
    IF preload.state = "ENOENT"
    THEN [ok |-> FALSE, channels |-> <<>>,
          message |-> "Preload file not found at: electron/preload.js"]
    ELSE IF preload.state # "ok"
    THEN [ok |-> FALSE, channels |-> <<>>, message |-> "EACCES: permission denied"]
    ELSE [ok |-> TRUE, channels |-> getPreloadChannels(preload), message |-> ""]

\* ASTParser.findInvokeChannels: the string-literal first arguments.
findInvokeChannels(script) ==
    {script.invokes[i].channel :
        i \in {j \in 1..Len(script.invokes) : script.invokes[j].literal}}

\* A read error of a source file is passed on.
ScanFileUncaught(script) ==
    IF script.readable THEN [ok |-> TRUE, channels |-> findInvokeChannels(script)]
    ELSE [ok |-> FALSE, channels |-> {}]

\* scanFileForInvokeCalls: a file that cannot be read yields no channel.
scanFileForInvokeCalls(script) ==
    IF script.readable THEN [ok |-> TRUE, channels |-> findInvokeChannels(script)]
    ELSE [ok |-> TRUE, channels |-> {}]

\* scanForInvokeCalls: the channels of all files, without duplicates, sorted.
scanForInvokeCalls(scripts) ==
    [ok |-> \A f \in Files : scanFileForInvokeCalls(scripts[f]).ok,
     channels |-> SortedSet(UNION {scanFileForInvokeCalls(scripts[f]).channels :
                                      f \in Files}),
     message |-> "File read error"]

\* found.filter(channel => !whitelisted.includes(channel))
Without(list, other) ==
    LET kept(c) == c \notin Elements(other) IN SelectSeq(list, kept)

Failure(message) ==
    [success |-> FALSE, error |-> message,
     channels |-> [found |-> <<>>, whitelisted |-> <<>>, missing |-> <<>>,
                   unused |-> <<>>]]

\* analyze()
analyze(project) ==
    LET w == getCurrentWhitelist(project.preload)
        s == scanForInvokeCalls(project.scripts)
        whitelisted == w.channels
        found == s.channels
        missing == Without(found, whitelisted)
        unused == Without(whitelisted, found)
    IN  IF ~w.ok THEN Failure(w.message)
        ELSE IF ~s.ok THEN Failure(s.message)
        ELSE [success |-> TRUE,
              summary |-> [foundChannels |-> Len(found),
                           whitelistedChannels |-> Len(whitelisted),
                           missingFromWhitelist |-> Len(missing),
                           unusedInWhitelist |-> Len(unused)],
              channels |-> [found |-> found, whitelisted |-> whitelisted,
                            missing |-> missing, unused |-> unused]]

\* preloadContent.replace(/validInvokeChannels\s*=\s*\[([\s\S]*?)\]/, ...):
\* the array literal, when the text has one, is rewritten with every channel
\* between single quotes; a text without it is returned as it is.
ReplaceArray(content, allChannels) ==
    IF ~content.declared THEN content
    ELSE [content EXCEPT !.elements = allChannels,
                         !.broken = \E i \in 1..Len(allChannels) :
                                        HasQuote(allChannels[i])]

\* generateFixedPreload(): throws when analyze failed.
generateFixedPreload(project) ==
    LET a == analyze(project)
        allChannels ==
            SortedSet(Elements(a.channels.found)
                      \cup (infrastructureChannels \cap Elements(a.channels.whitelisted)))
        removedChannel(c) == c \notin infrastructureChannels
    IN  IF ~a.success THEN [ok |-> FALSE, content |-> project.preload,
                            channels |-> <<>>, removed |-> <<>>]
        ELSE [ok |-> TRUE,
              content |-> ReplaceArray(project.preload, allChannels),
              channels |-> allChannels,
              removed |-> SelectSeq(a.channels.unused, removedChannel)]

\* -------------------------------------------------- the doctor's projects
Invokes == {Invoke(c, TRUE) : c \in DoctorChannels} \cup {Invoke("load", FALSE)}

Preloads ==
    {Preload("ENOENT", FALSE, <<>>), Preload("EACCES", FALSE, <<>>),
     Preload("ok", FALSE, <<>>)}
    \cup {Preload("ok", TRUE, e) : e \in SeqsUpTo(DoctorChannels, MaxWhitelist)}

ScriptsOfA ==
    {SourceScript(FALSE, <<Invoke("load", TRUE)>>)}
    \cup {SourceScript(TRUE, i) : i \in SeqsUpTo(Invokes, MaxInvokes)}

ScriptsOfB == {SourceScript(r, <<Invoke("load", TRUE)>>) : r \in BOOLEAN}

DoctorProjects ==
    {[preload |-> p, scripts |-> Project(a, b)] :
        p \in Preloads, a \in ScriptsOfA, b \in ScriptsOfB}

NoAnalysis == [success |-> "none"]
NoFix == [ok |-> FALSE, content |-> Preload("ENOENT", FALSE, <<>>),
          channels |-> <<>>, removed |-> <<>>]

\* ------------------------------------------------------- analyze and fix
DoctorInit ==
    /\ sources \in DoctorProjects
    /\ analysis = [pc |-> "idle", result |-> NoAnalysis, fixed |-> NoFix,
                   fixResult |-> "none", fixes |-> 0, faults |-> 0,
                   backups |-> <<>>, whitelistAfterFix |-> <<>>,
                   written |-> 0, preloadAtFix |-> sources.preload,
                   copyFailed |-> FALSE]
    /\ disk = [f \in Files |-> Missing]
    /\ options = [validateSyntax |-> TRUE, conservative |-> TRUE,
                  dryRun |-> FALSE, maxChangesPerFile |-> UserMaxChanges]
    /\ nodeAcceptsModules = FALSE
    /\ details = Details
    /\ operations = <<>>
    /\ pc = "doctor"
    /\ opIdx = 0
    /\ queue = <<>>
    /\ statistics = NoStatistics
    /\ errors = <<>>
    /\ backup = NoBackup
    /\ report = NoReport
    /\ log = <<>>
    /\ run = 1
    /\ faults = 0
    /\ runStart = disk
    /\ prevLog = <<>>

\* const result = await doctor.analyze()
Analyze ==
    /\ analysis.pc = "idle"
    /\ analysis.result # analyze(sources)
    /\ analysis' = [analysis EXCEPT !.result = analyze(sources)]
    /\ UNCHANGED sources
    /\ SurgeonIdle

\* fix(): const fixed = await this.generateFixedPreload(); a failed analysis
\* is thrown on to the caller.
FixGenerate ==
    /\ analysis.pc = "idle"
    /\ analysis.fixes < MaxFixes
    /\ LET fixed == generateFixedPreload(sources)
       IN  analysis' =
               IF fixed.ok
               THEN [analysis EXCEPT !.pc = "backup", !.fixed = fixed,
                                     !.preloadAtFix = sources.preload,
                                     !.copyFailed = FALSE]
               ELSE [analysis EXCEPT !.fixResult = "rejected", !.fixes = @ + 1]
    /\ UNCHANGED sources
    /\ SurgeonIdle

\* A failed copy is ignored and fix() goes on to write.
CopyFailureIgnored == "write"

\* A rejected fs.copyFile rejects fix(): nothing after it runs.
AfterCopyFailure == "idle"

\* await fs.copyFile(preloadPath, backupPath)
FixBackup ==
    /\ analysis.pc = "backup"
    /\ \E fails \in BOOLEAN :
          /\ fails => analysis.faults < MaxFaults
          /\ analysis' =
                IF fails
                THEN [analysis EXCEPT !.pc = AfterCopyFailure,
                                      !.fixResult = "rejected",
                                      !.copyFailed = TRUE,
                                      !.fixes = @ + 1, !.faults = @ + 1]
                ELSE [analysis EXCEPT !.pc = "write",
                                      !.backups = Append(@, sources.preload)]
    /\ UNCHANGED sources
    /\ SurgeonIdle

\* await fs.writeFile(preloadPath, fixed.content, 'utf8'); return {success: true, ...}
FixWrite ==
    /\ analysis.pc = "write"
    /\ \E fails \in BOOLEAN :
          /\ fails => analysis.faults < MaxFaults
          /\ IF fails
             THEN /\ analysis' = [analysis EXCEPT !.pc = "idle",
                                      !.fixResult = "rejected",
                                      !.fixes = @ + 1, !.faults = @ + 1]
                  /\ UNCHANGED sources
             ELSE /\ sources' = [sources EXCEPT !.preload = analysis.fixed.content]
                  /\ analysis' = [analysis EXCEPT
                         !.pc = "idle", !.fixResult = "success",
                         !.fixes = @ + 1, !.written = @ + 1,
                         !.whitelistAfterFix =
                             IF analysis.written = 0
                             THEN getPreloadChannels(analysis.fixed.content)
                             ELSE @]
    /\ SurgeonIdle

DoctorNext ==
    \/ Analyze
    \/ FixGenerate
    \/ FixBackup
    \/ FixWrite

SpecDoctor == DoctorInit /\ [][DoctorNext]_vars

\* --------------------------------------------- properties of the doctor
Analysed == analysis.result # NoAnalysis

NoDuplicates(list) == \A i, j \in 1..Len(list) : list[i] = list[j] => i = j

Position(c) == CHOOSE k \in 1..Len(ChannelOrder) : ChannelOrder[k] = c

Sorted(list) ==
    \A i, j \in 1..Len(list) : i < j => Position(list[i]) <= Position(list[j])

\* C18: analyze returns missing = found minus whitelisted and unused =
\* whitelisted minus found, each sorted and without duplicates; missing and
\* unused are disjoint, every found channel is whitelisted or missing, and
\* the four summary counts are the lengths of the four lists.
C18_MissingAndUnusedAreSets ==
    (Analysed /\ analysis.result.success = TRUE) =>
        LET ch == analysis.result.channels
            sum == analysis.result.summary
        IN  /\ Elements(ch.missing) = Elements(ch.found) \ Elements(ch.whitelisted)
            /\ Elements(ch.unused) = Elements(ch.whitelisted) \ Elements(ch.found)
            /\ Sorted(ch.missing) /\ NoDuplicates(ch.missing)
            /\ Sorted(ch.unused) /\ NoDuplicates(ch.unused)
            /\ Elements(ch.missing) \cap Elements(ch.unused) = {}
            /\ Elements(ch.found) \subseteq Elements(ch.whitelisted) \cup Elements(ch.missing)
            /\ sum.foundChannels = Len(ch.found)
            /\ sum.whitelistedChannels = Len(ch.whitelisted)
            /\ sum.missingFromWhitelist = Len(ch.missing)
            /\ sum.unusedInWhitelist = Len(ch.unused)

SaysNotFound(message) == message = "Preload file not found at: electron/preload.js"

EmptyLists(ch) ==
    ch.found = <<>> /\ ch.whitelisted = <<>> /\ ch.missing = <<>> /\ ch.unused = <<>>

\* The channels invoked with a string literal in the readable source files.
InvokedInReadable ==
    {c \in DoctorChannels :
        \E f \in Files : \E i \in 1..Len(sources.scripts[f].invokes) :
            /\ sources.scripts[f].readable
            /\ sources.scripts[f].invokes[i] = Invoke(c, TRUE)}

\* C19 as stated: whenever the preload file cannot be read, analyze returns
\* success: false with a message containing 'Preload file not found' and
\* four empty lists; an unreadable source file only contributes no channels.
C19_AsClaimed ==
    Analysed =>
        /\ sources.preload.state # "ok" =>
              /\ analysis.result.success = FALSE
              /\ SaysNotFound(analysis.result.error)
              /\ EmptyLists(analysis.result.channels)
        /\ sources.preload.state = "ok" =>
              /\ analysis.result.success = TRUE
              /\ Elements(analysis.result.channels.found) = InvokedInReadable

\* C19, amended: analyze always returns a result.  A preload file that does
\* not exist gives success: false with the 'Preload file not found' message,
\* any other read error success: false with that error's own message, both
\* with four empty lists; an unreadable source file only contributes no
\* channels.
C19_AnalyzeNeverThrows ==
    Analysed =>
        /\ analysis.result.success \in BOOLEAN
        /\ sources.preload.state = "ENOENT" =>
              /\ analysis.result.success = FALSE
              /\ SaysNotFound(analysis.result.error)
              /\ EmptyLists(analysis.result.channels)
        /\ sources.preload.state \notin {"ok", "ENOENT"} =>
              /\ analysis.result.success = FALSE
              /\ ~SaysNotFound(analysis.result.error)
              /\ EmptyLists(analysis.result.channels)
        /\ sources.preload.state = "ok" =>
              /\ analysis.result.success = TRUE
              /\ Elements(analysis.result.channels.found) = InvokedInReadable

\* The preload file does not exist and a.js cannot be read: analyze has
\* returned the failure.
C19_Witness ==
    /\ Analysed
    /\ sources.preload.state = "ENOENT"
    /\ ~sources.scripts["a.js"].readable
    /\ analysis.result.success = FALSE
    /\ SaysNotFound(analysis.result.error)

\* C20: once fix() has returned success, analyze on the fixed project
\* reports no missing channel, and a second fix() leaves the whitelist as
\* the first one wrote it.
C20_FixedPreloadWhitelistsFound ==
    (analysis.pc = "idle" /\ analysis.fixResult = "success") =>
        /\ analyze(sources).success = TRUE
        /\ analyze(sources).channels.missing = <<>>
        /\ getPreloadChannels(sources.preload) = analysis.whitelistAfterFix

\* C21: fix() copies the preload file to a backup before it writes the
\* fixed content, the backup holds the content the write replaces, and a
\* failed copy leaves the preload file as it was when fix() was called.
C21_BackupBeforeWrite ==
    /\ analysis.written <= Len(analysis.backups)
    /\ analysis.pc = "write" =>
          /\ Len(analysis.backups) >= 1
          /\ analysis.backups[Len(analysis.backups)] = sources.preload
          /\ sources.preload = analysis.preloadAtFix
    /\ analysis.copyFailed => sources.preload = analysis.preloadAtFix

\* One fix has rewritten the whitelist and the backup holds the old text.
C21_Witness ==
    /\ analysis.written = 1
    /\ Len(analysis.backups) = 1
    /\ analysis.backups[1] # sources.preload
    /\ analysis.backups[1].state = "ok"

\* ====================================================== performCodeSurgery
\* ChannelDoctor.performCodeSurgery(options): the health checkup, then the
\* Safe Mutator or the legacy CodeSurgeon, constructed from the caller's
\* options.  `sources` holds the call, `analysis` what became of it.

\* A JavaScript value of an options object.
Undefined == [type |-> "undefined"]
Bool(b) == [type |-> "boolean", value |-> b]
Num(n) == [type |-> "number", value |-> n]
\* The key is not in the object at all.
Absent == [type |-> "absent"]

IsFalse(v) == v.type = "boolean" /\ ~v.value

\* ToBoolean(v)
Truthy(v) ==
    IF v.type = "boolean" THEN v.value
    ELSE IF v.type = "number" THEN v.value # 0
    ELSE FALSE

\* options.key: undefined when the object has no such key.
Get(obj, key) == IF key \in DOMAIN obj THEN obj[key] ELSE Undefined

\* { ...defaults, ...options }: every key of options, the value undefined
\* included, replaces the key of defaults.
Spread(defaults, obj) ==
    [k \in DOMAIN defaults \cup DOMAIN obj |->
        IF k \in DOMAIN obj THEN obj[k] ELSE defaults[k]]

\* a || b
OrElse(a, b) == IF Truthy(a) THEN a ELSE b

DefaultMaxChanges == 10

\* The defaults the constructor of SafeCodeSurgeon computes before the
\* spread: options.validateSyntax !== false, options.dryRun || false, ...
SafeDefaults(obj) ==
    [validateSyntax |-> Bool(~IsFalse(Get(obj, "validateSyntax"))),
     dryRun |-> OrElse(Get(obj, "dryRun"), Bool(FALSE)),
     conservative |-> Bool(~IsFalse(Get(obj, "conservative"))),
     maxChangesPerFile |-> OrElse(Get(obj, "maxChangesPerFile"), Num(DefaultMaxChanges))]

\* new SafeCodeSurgeon(options).options
SafeCodeSurgeon(obj) == Spread(SafeDefaults(obj), obj)

\* new CodeSurgeon(options).options
CodeSurgeon(obj) ==
    Spread([safeMode |-> Bool(~IsFalse(Get(obj, "safeMode")))], obj)

\* this.options as the Safe Mutator's statements read it: the flags in
\* `if (this.options.flag)`, and maxChangesPerFile in
\* `changeCount < this.options.maxChangesPerFile`, which is false for
\* every changeCount when the value is undefined, as it is for 0.
OptionsView(raw) ==
    [validateSyntax |-> Truthy(raw["validateSyntax"]),
     conservative |-> Truthy(raw["conservative"]),
     dryRun |-> Truthy(raw["dryRun"]),
     maxChangesPerFile |->
        IF raw["maxChangesPerFile"].type = "number"
        THEN raw["maxChangesPerFile"].value ELSE 0]

OptionKeys ==
    {"safeMode", "backup", "dryRun", "validateSyntax", "conservative",
     "maxChangesPerFile"}

\* What a caller passes for each key: the command line passes
\* maxChangesPerFile and dryRun as undefined when the flag is absent.
Choices ==
    [safeMode : {Absent, Bool(FALSE)},
     backup : {Absent, Bool(TRUE), Bool(FALSE)},
     dryRun : {Absent, Undefined, Bool(TRUE)},
     validateSyntax : {Absent, Undefined, Bool(FALSE)},
     conservative : {Absent, Bool(TRUE)},
     maxChangesPerFile : {Absent, Undefined, Num(UserMaxChanges)}]

Given(c) == [k \in {key \in OptionKeys : c[key] # Absent} |-> c[k]]

GivenOptions == {Given(c) : c \in Choices}

NoDetails == [unusedFunctions |-> <<>>, unusedImports |-> <<>>]

\* generateReport: the lengths of all the issue lists, the ones no surgeon
\* operation of the model consumes counted in otherIssues.
totalIssues(d, otherIssues) ==
    Len(d.unusedFunctions) + Len(d.unusedImports) + otherIssues

\* The surgeon run whatever the checkup found.
NoIssuesNever(total) == FALSE

\* if (analysisReport.summary.totalIssues === 0)
NoIssues(total) == total = 0

\* const useSafeMode = options.safeMode !== false;
useSafeMode(obj) == ~IsFalse(Get(obj, "safeMode"))

NoSurgeon == [pc |-> "surgery", mode |-> "none", raw |-> <<>>, message |-> ""]

SurgeryProjects ==
    {d \in [Files -> Contents] : d["a.js"] \in {Script, EsModule} /\ d["b.js"] = Clean}

SurgeryInit ==
    /\ sources \in [given : GivenOptions, otherIssues : {0, 1}]
    /\ analysis = NoSurgeon
    /\ disk \in SurgeryProjects
    /\ options = OptionsView(SafeCodeSurgeon(<<>>))
    /\ nodeAcceptsModules = TRUE
    /\ details \in {Details, NoDetails}
    /\ operations = <<>>
    /\ pc = "checkup"
    /\ opIdx = 0
    /\ queue = <<>>
    /\ statistics = NoStatistics
    /\ errors = <<>>
    /\ backup = NoBackup
    /\ report = NoReport
    /\ log = <<>>
    /\ run = 1
    /\ faults = 0
    /\ runStart = disk
    /\ prevLog = <<>>

SurgeryFrame ==
    UNCHANGED <<disk, nodeAcceptsModules, details, operations, opIdx, queue,
                statistics, errors, backup, log, run, faults, runStart, prevLog,
                sources>>

\* return { success: true, message: 'No issues found' };
ReturnNoIssues ==
    /\ pc = "checkup"
    /\ NoIssues(totalIssues(details, sources.otherIssues))
    /\ pc' = "returned"
    /\ report' = [NoReport EXCEPT !.success = TRUE]
    /\ analysis' = [analysis EXCEPT !.message = "No issues found"]
    /\ UNCHANGED options
    /\ SurgeryFrame

\* const surgeon = new SafeCodeSurgeon({...this.options, ...options});
ConstructSafe ==
    /\ pc = "checkup"
    /\ ~NoIssues(totalIssues(details, sources.otherIssues))
    /\ useSafeMode(sources.given)
    /\ analysis' = [analysis EXCEPT !.mode = "SAFE",
                                    !.raw = SafeCodeSurgeon(sources.given)]
    /\ options' = OptionsView(SafeCodeSurgeon(sources.given))
    /\ pc' = "idle"
    /\ UNCHANGED report
    /\ SurgeryFrame

\* const surgeon = new CodeSurgeon({...this.options, ...options});
ConstructLegacy ==
    /\ pc = "checkup"
    /\ ~NoIssues(totalIssues(details, sources.otherIssues))
    /\ ~useSafeMode(sources.given)
    /\ analysis' = [analysis EXCEPT !.mode = "LEGACY",
                                    !.raw = CodeSurgeon(sources.given)]
    /\ pc' = "legacy"
    /\ UNCHANGED <<options, report>>
    /\ SurgeryFrame

legacyDefaultOperations ==
    <<"unused-functions", "unused-imports", "unused-css-classes", "dead-code-paths">>

legacyActiveOperations(ops) == IF Len(ops) > 0 THEN ops ELSE legacyDefaultOperations

\* The node kinds whose text the regular expressions of an operation match.
LegacyKinds(operation) ==
    IF operation = "unused-functions" THEN FunctionKinds
    ELSE IF operation = "unused-imports" THEN {"ImportDeclaration", "RequireDeclaration"}
    ELSE {}

\* removeFunctionDeclaration, removeES6Import, ...: content.replace(regex, '')
\* for every name, the matched statements taken out of the text.
LegacyRemove(content, kinds, names) ==
    [content EXCEPT !.nodes =
        SelectSeq(@, LAMBDA n : ~(n.kind \in kinds /\ n.names \cap names # {}))]

\* The loop over fileGroups of a legacy operation: readFileSync, the
\* removals, and writeFileSync when the content changed.
RECURSIVE LegacyGroups(_, _, _)
LegacyGroups(d, kinds, groups) ==
    IF groups = <<>> THEN [disk |-> d, threw |-> FALSE]
    ELSE LET g == Head(groups)
         IN  IF ~d[g.file].exists THEN [disk |-> d, threw |-> TRUE]
             ELSE LegacyGroups([d EXCEPT ![g.file] = LegacyRemove(@, kinds, g.names)],
                               kinds, Tail(groups))

\* performSurgery: if (this.options.safeMode) await this.createBackup();
LegacyStart ==
    /\ pc = "legacy"
    /\ pc' = "legacy-ops"
    /\ backup' = IF Truthy(analysis.raw["safeMode"])
                 THEN [state |-> "complete", pending |-> <<>>,
                       copies |-> [f \in Files |-> disk[f]]]
                 ELSE backup
    /\ UNCHANGED <<disk, opIdx, queue, statistics, errors, report, log, faults>>
    /\ UNCHANGED Fixed

\* await this.performOperation(operation, analysisReport);
LegacyOperation ==
    /\ pc = "legacy-ops"
    /\ opIdx < Len(legacyActiveOperations(operations))
    /\ LET op == legacyActiveOperations(operations)[opIdx + 1]
           r == LegacyGroups(disk, LegacyKinds(op), groupByFile(Targets(details, op)))
       IN  /\ disk' = r.disk
           /\ pc' = IF r.threw THEN "aborted" ELSE pc
    /\ opIdx' = opIdx + 1
    /\ UNCHANGED <<queue, statistics, errors, backup, report, log, faults>>
    /\ UNCHANGED Fixed

\* return this.generateSurgeryReport();
LegacyFinish ==
    /\ pc = "legacy-ops"
    /\ opIdx = Len(legacyActiveOperations(operations))
    /\ report' = [NoReport EXCEPT !.success = TRUE, !.mode = "LEGACY"]
    /\ pc' = "done"
    /\ UNCHANGED <<disk, opIdx, queue, statistics, errors, backup, log, faults>>
    /\ UNCHANGED Fixed

SurgeryNext ==
    \/ ReturnNoIssues
    \/ ConstructSafe
    \/ ConstructLegacy
    \/ Start
    \/ BackupCopy
    \/ BackupFinish
    \/ BackupFail
    \/ BeginOperation
    \/ Transaction
    \/ Finish
    \/ LegacyStart
    \/ LegacyOperation
    \/ LegacyFinish

SpecSurgery == SurgeryInit /\ [][SurgeryNext]_vars

\* --------------------------------------------------- surgery properties
\* The run is live: the caller did not ask for a dry run.
LiveSurgery == ~Truthy(Get(sources.given, "dryRun"))

\* backup: false, as --no-backup passes it.
BackupDisabled == IsFalse(Get(sources.given, "backup"))

\* C22: in a live surgery, safe or legacy, a file is modified only after a
\* backup was completed unless the backup is disabled, and with the backup
\* disabled no backup is created.
C22_BackupUnlessDisabled ==
    LiveSurgery =>
        /\ (~BackupDisabled /\ disk # runStart) => backup.state = "complete"
        /\ BackupDisabled => backup.state = "none"

SafeOptionKeys == {"validateSyntax", "conservative", "dryRun", "maxChangesPerFile"}

\* The documented default of an option: validateSyntax and conservative on,
\* dryRun off, maxChangesPerFile 10.
DocumentedDefault(key) ==
    IF key = "maxChangesPerFile" THEN Num(DefaultMaxChanges)
    ELSE IF key = "dryRun" THEN Bool(FALSE)
    ELSE Bool(TRUE)

\* The surgeon behaves the same under both values: a flag is read for its
\* truth, maxChangesPerFile for its number.
SameSetting(key, a, b) ==
    IF key = "maxChangesPerFile" THEN a = b ELSE Truthy(a) = Truthy(b)

\* C23: a SafeCodeSurgeon constructed from options that give no value for a
\* key, the key absent or passed as undefined, has the documented default
\* for that key.
C23_DefaultsApply ==
    analysis.mode = "SAFE" =>
        \A key \in SafeOptionKeys :
            Get(sources.given, key).type = "undefined" =>
                SameSetting(key, analysis.raw[key], DocumentedDefault(key))

\* C30: when the checkup reports no issue, performCodeSurgery constructs no
\* surgeon, creates no backup and writes no file, whichever mode the caller
\* asked for, and what it returns is the success result.
C30_NoIssuesNoSurgery ==
    totalIssues(details, sources.otherIssues) = 0 =>
        /\ pc \in {"checkup", "returned"}
        /\ analysis.mode = "none"
        /\ backup = NoBackup
        /\ disk = runStart
        /\ pc = "returned" =>
              report.success /\ analysis.message = "No issues found"

\* A live legacy-mode call that returned on a project without issues.
C30_Witness ==
    /\ pc = "returned"
    /\ totalIssues(details, sources.otherIssues) = 0
    /\ ~useSafeMode(sources.given)
    /\ LiveSurgery

\* ------------------------------------------------ gate order, statistics
\* validateSyntax accepts the generated text of a transaction.
PassesValidation(e) ==
    \/ ~options.validateSyntax
    \/ NewFunctionOk(e.generated)
    \/ e.fault # "tempWrite" /\ nodeAcceptsModules

\* A generated text that conservative mode turns down.
OverThreshold(e) == options.conservative /\ Generated(e) /\ Over30(e)

SyntaxErrorsIn(errs) == {i \in 1..Len(errs) : errs[i].type = "syntax_error"}

EarlierOnFile(i) == {j \in 1..(i - 1) : log[j].file = log[i].file}

\* The last of a non-empty set of positions.
Last(positions) == CHOOSE j \in positions : \A k \in positions : k <= j

OutcomeCounters ==
    {"filesModified", "filesSkipped", "modificationsFailed", "validationsFailed"}

\* What a transaction added to a counter.
Added(e, counter) == e.statsAfter[counter] - e.statsBefore[counter]

OutcomeTotal(stats) ==
    stats.filesModified + stats.filesSkipped + stats.modificationsFailed
    + stats.validationsFailed

DefinitionLines(file, name) ==
    {i \in 1..Len(sources[file].tokens) :
        /\ sources[file].tokens[i].name = name
        /\ sources[file].tokens[i].form
               \in {"FunctionDeclaration", "ArrowBinding", "Method"}}

\* The positions in the scan order of the files that define a name.
DefiningFiles(name) ==
    {k \in 1..Len(analysis.jsFiles) : DefinitionLines(analysis.jsFiles[k], name) # {}}

\* C28: a function name is reported as unused at most once, however often
\* it is defined, and the issue carries the file and the line of the last
\* definition: the last one in the last scanned file that defines the name.
C28_LastDefinitionKept ==
    analysis.functionsDone =>
        \A name \in FunctionNames :
            /\ Cardinality(ReportedFunctions(name)) <= 1
            /\ \A i \in ReportedFunctions(name) :
                  LET issue == analysis.analysisResults.unusedFunctions[i]
                      lastFile == analysis.jsFiles[Last(DefiningFiles(name))]
                  IN  /\ DefiningFiles(name) # {}
                      /\ issue.file = lastFile
                      /\ issue.line = Last(DefinitionLines(lastFile, name))

\* foo is bound to an arrow function twice in a.js and once in b.js; b.js
\* was scanned first: one issue, at the second definition of a.js.
C28_Witness ==
    /\ analysis.functionsDone
    /\ analysis.jsFiles = <<"b.js", "a.js">>
    /\ sources["a.js"].tokens = <<Occ("ArrowBinding", "foo"), Occ("ArrowBinding", "foo")>>
    /\ sources["b.js"].tokens = <<Occ("ArrowBinding", "foo")>>
    /\ analysis.analysisResults.unusedFunctions
          = <<FunctionInfo("foo", "a.js", 2, "arrow")>>

\* ------------------------------------------------- the size threshold
\* The number of lines a block covers, its first and last line included.
LinesCovered(fb) == fb.span + 1

\* The body has an entry among the locations of functionHashes.
IsFingerprinted(p) ==
    \E h \in 1..Len(analysis.functionHashes) :
        \E i \in 1..Len(analysis.functionHashes[h].locations) :
            analysis.functionHashes[h].locations[i] = Location(p[1], BodyAt(p))

\* C27 as claimed: a function body is fingerprinted exactly when it covers
\* more than 3 lines, so that a body of 4 lines is fingerprinted.
C27_AsClaimed ==
    DuplicatesDone =>
        \A p \in BodiesOfProject :
            IsFingerprinted(p) <=> LinesCovered(BodyAt(p)) > 3

\* C27 amended: a block body is fingerprinted exactly when the line of its
\* closing brace is more than 3 after the line of its opening brace, that
\* is when it covers at least 5 lines.
C27_FingerprintedFromFiveLines ==
    DuplicatesDone =>
        \A p \in BodiesOfProject :
            IsFingerprinted(p) <=> LinesCovered(BodyAt(p)) >= 5

\* A file with a body of 4 lines that was left out and a body of 5 lines
\* that was fingerprinted.
C27_Witness ==
    /\ DuplicatesDone
    /\ \E p, q \in BodiesOfProject :
          /\ LinesCovered(BodyAt(p)) = 4 /\ ~IsFingerprinted(p)
          /\ LinesCovered(BodyAt(q)) = 5 /\ IsFingerprinted(q)

\* ================================================ the concurrent detectors
\* analyzeProject with detectUnusedImports among the detectors it starts:
\* detectUnusedImports issues one read per file and each file's
\* continuation pushes onto analysisResults.unusedImports when its own read
\* completes.  The binding forms of a text:
\*   Require            const helper = require('./lib');
\*   RequireNamesake    const fs = require('fs');
RequireForms == {"Require", "RequireNamesake"}

\* content.match(/\bname\b/g) on one occurrence: the module path of a
\* namesake require holds the name a second time.
MatchesIn(occ, identifier) ==
    IF occ.name # identifier THEN 0
    ELSE IF occ.form = "RequireNamesake" THEN 2
    ELSE 1

RECURSIVE MatchCount(_, _)
MatchCount(content, identifier) ==
    IF content = <<>> THEN 0
    ELSE MatchesIn(Head(content), identifier) + MatchCount(Tail(content), identifier)

\* isUsedInFile: matches && matches.length > 1
isUsedInFile(content, identifier) == MatchCount(content, identifier) > 1

\* The infos one file's continuation pushes, from occurrence i on: the
\* direct requires whose binding is not used in the file.
RECURSIVE UnusedImportsOf(_, _, _)
UnusedImportsOf(file, content, i) ==
    IF i > Len(content) THEN <<>>
    ELSE (IF content[i].form \in RequireForms /\ ~isUsedInFile(content, content[i].name)
          THEN <<FunctionInfo(content[i].name, file, i, "commonjs-direct")>>
          ELSE <<>>)
         \o UnusedImportsOf(file, content, i + 1)

\* The reads of Promise.all(jsFiles.map(async ...)) that can complete next:
\* any of those still outstanding.
CompletesNext(jsFiles, done) ==
    {jsFiles[k] : k \in 1..Len(jsFiles)} \ done

ImportOccurrences ==
    {Occ("Require", "helper"), Occ("RequireNamesake", "fs"), Occ("Call", "helper"),
     Occ("ArrowBinding", "foo")}

ImportTextsOfB ==
    {<<>>, <<Occ("Require", "helper")>>, <<Occ("Require", "fs")>>,
     <<Occ("Require", "helper"), Occ("Call", "helper")>>}

\* Projects that differ in the requires of their files; each file holds one
\* function of the same structure.
ImportProjects ==
    {Project(Parsed(t, <<FunctionBody("plain", "x", 10, MinBodySpan + 1, FALSE)>>, <<>>),
             Parsed(u, <<FunctionBody("plain", "y", 20, MinBodySpan + 1, FALSE)>>, <<>>)) :
        t \in SeqsUpTo(ImportOccurrences, MaxOccurrences), u \in ImportTextsOfB}

AllResults ==
    [unusedFunctions |-> <<>>, unusedImports |-> <<>>, duplicateCode |-> <<>>,
     unusedIpcHandlers |-> <<>>]

DetectorsInit ==
    /\ sources \in ImportProjects
    /\ analysis = [pc |-> "idle", jsFiles |-> <<>>, functionsDone |-> FALSE,
                   indexed |-> 0, functionHashes |-> <<>>, importsRead |-> {},
                   analysisResults |-> AllResults, totalIssues |-> 0]
    /\ disk = [f \in Files |-> Missing]
    /\ options = [validateSyntax |-> TRUE, conservative |-> TRUE,
                  dryRun |-> FALSE, maxChangesPerFile |-> UserMaxChanges]
    /\ nodeAcceptsModules = FALSE
    /\ details = Details
    /\ operations = <<>>
    /\ pc = "analysis"
    /\ opIdx = 0
    /\ queue = <<>>
    /\ statistics = NoStatistics
    /\ errors = <<>>
    /\ backup = NoBackup
    /\ report = NoReport
    /\ log = <<>>
    /\ run = 1
    /\ faults = 0
    /\ runStart = disk
    /\ prevLog = <<>>

\* detectUnusedImports: the read of one file completes and the rest of its
\* callback runs, pushing the file's unused imports.
UnusedImportsRead ==
    /\ analysis.pc = "detecting"
    /\ \E file \in CompletesNext(analysis.jsFiles, analysis.importsRead) :
          analysis' = [analysis EXCEPT
              !.importsRead = @ \cup {file},
              !.analysisResults.unusedImports =
                  @ \o UnusedImportsOf(file, sources[file].tokens, 1)]
    /\ UNCHANGED sources
    /\ SurgeonIdle

\* return this.generateReport(), once the Promise.all of the detectors has
\* resolved.
GenerateFullReport ==
    /\ analysis.pc = "detecting"
    /\ analysis.functionsDone
    /\ analysis.indexed = Len(analysis.jsFiles)
    /\ CompletesNext(analysis.jsFiles, analysis.importsRead) = {}
    /\ analysis' = [analysis EXCEPT
           !.pc = "done",
           !.totalIssues = Len(analysis.analysisResults.unusedFunctions)
                           + Len(analysis.analysisResults.unusedImports)
                           + Len(analysis.analysisResults.duplicateCode)
                           + Len(analysis.analysisResults.unusedIpcHandlers)]
    /\ UNCHANGED sources
    /\ SurgeonIdle

DetectorsNext ==
    \/ AnalyzeProject
    \/ UnusedFunctionsDetected
    \/ DuplicateCodeIndexed
    \/ UnusedImportsRead
    \/ GenerateFullReport

SpecDetectors == DetectorsInit /\ [][DetectorsNext]_vars

\* The unused imports of the files from index k on, file after file in the
\* order the reads were issued.
RECURSIVE ImportsInIssueOrder(_, _)
ImportsInIssueOrder(jsFiles, k) ==
    IF k > Len(jsFiles) THEN <<>>
    ELSE UnusedImportsOf(jsFiles[k], sources[jsFiles[k]].tokens, 1)
         \o ImportsInIssueOrder(jsFiles, k + 1)

RECURSIVE HashesInOrder(_, _)
HashesInOrder(jsFiles, k) ==
    IF k = 0 THEN <<>>
    ELSE IndexFile(HashesInOrder(jsFiles, k - 1), jsFiles[k], sources[jsFiles[k]])

====
